---- MODULE Spec2Model ----
(***************************************************************************)
(* Model of line_profiler's C trace-callback shim                          *)
(* (src/line_profiler/c_trace_callbacks.c): the TraceCallback snapshot     *)
(* helpers, call_callback() and set_local_trace().                         *)
(*                                                                         *)
(* The wrapped trace function called by call_callback() is opaque: while   *)
(* it runs it may call PyEval_SetTrace(), write the frame's f_trace and    *)
(* f_trace_lines, and trigger events that reenter call_callback().  The    *)
(* model therefore splits call_callback() at that indirect call: the part  *)
(* before it (call_callback_entry) pushes an activation record, the hook's *)
(* steps are actions of their own, and the part after it                   *)
(* (call_callback_return) runs lines 197-236 in one step.                  *)
(*                                                                         *)
(* Three specifications share the state: Spec (call_callback around an     *)
(* arbitrary hook), SpecSnapshot (populate/nullify/restore of the          *)
(* profiler's TraceCallback) and SpecAttach (set_local_trace).             *)
(***************************************************************************)
EXTENDS Integers, Sequences, FiniteSets, TLC

\* ---------------------------------------------------------------- bounds
MaxDepth == 2      \* nesting depth of reentrant call_callback() activations
MaxRef == 4        \* populate_callback() on the profiler's callback is not
                   \* taken once the context's reference count reaches this
MaxDis == 2        \* disabler wrappers call_callback() stacks on f_trace
MaxWrap == 5

\* The restart counter is advanced while it is below MaxEpoch.
MaxEpoch == 3       \* longest frame-local hook term set_local_trace() builds

\* ---------------------------------------------------------------- values
NULL == "NULL"
Objs == {"o1", "o2"}                   \* reference-counted context objects

\* Frame-local hooks are terms in prefix form: <<>> is NULL, <<"None">> is
\* Py_None, <<"h1">> a plain hook, <<"m1">> a manager, <<"dis">> \o h the
\* result of the disabler on h, <<"wrap", m>> \o h the result of
\* manager.wrap_local_f_trace(h).
NoHook == << >>
Py_None == <<"None">>
Managers == {<<"m1">>, <<"m2">>}
PlainHooks == {<<"h1">>}

\* PY_VERSION_HEX: 0x030c00b1 (3.12.0b1) is the release the code tests
\* for, 0x030c00a7 (3.12.0a7) the first with sys.monitoring; the builds
\* are 3.11.0, 3.12.0a7, 3.12.0b1 and 3.13.0.
Hex_3_12_0b1 == 51118257

Hex_3_12_0a7 == 51118247

Builds == {51052784, Hex_3_12_0a7, Hex_3_12_0b1, 51183856}

\* The values a function-pointer or object-pointer member can hold.
FuncPtrs == {NULL, "f1", "f2"}

ObjPtrs == {NULL} \cup Objs

\* (c_tracefunc, c_traceobj) pairs the thread state is given in the model:
\* unset, two different hooks, and the two half-set pairs.
Slots ==
    { [c_tracefunc |-> NULL, c_traceobj |-> NULL],
      [c_tracefunc |-> "f1", c_traceobj |-> "o1"],
      [c_tracefunc |-> "f2", c_traceobj |-> "o2"],
      [c_tracefunc |-> "f1", c_traceobj |-> NULL],
      [c_tracefunc |-> NULL, c_traceobj |-> "o1"] }

\* Outcome codes a Py_tracefunc may return (-1 is "raised").
Results == {-1, 0, 1}

VARIABLES
    tstate,      \* PyThreadState: [c_tracefunc, c_traceobj]
    refcnt,      \* ob_refcnt of every context object
    callback,    \* the profiler's TraceCallback*: [null, c_tracefunc, c_traceobj]
    frame,       \* py_frame: [f_trace, f_trace_lines]
    stack,       \* activations of call_callback() waiting for their hook
    last,        \* record of the operation that has just completed
    host         \* the build and its PyInterpreterState:
                 \* [PY_VERSION_HEX, last_restart_version]

vars == <<tstate, refcnt, callback, frame, stack, last, host>>

\* ------------------------------------------------------- reference counts
Py_XINCREF(rc, o) == IF o = NULL THEN rc ELSE [rc EXCEPT ![o] = @ + 1]

Py_XDECREF(rc, o) == IF o = NULL THEN rc ELSE [rc EXCEPT ![o] = @ - 1]

\* ------------------------------------------------------- TraceCallback
\* A TraceCallback* : null is the NULL pointer, otherwise the two members.
TraceCallbackPtr(func, obj) ==
    [null |-> FALSE, c_tracefunc |-> func, c_traceobj |-> obj]

NullPtr == [null |-> TRUE, c_tracefunc |-> NULL, c_traceobj |-> NULL]

\* PyEval_SetTrace(func, arg): the thread state takes a new reference to
\* arg and releases the c_traceobj it held.
PyEval_SetTrace(func, arg, ts, rc) ==
    [ts |-> [c_tracefunc |-> func, c_traceobj |-> arg],
     rc |-> Py_XDECREF(Py_XINCREF(rc, arg), ts.c_traceobj)]

populate_callback(cb, ts, rc) ==
    IF cb.null
    THEN [cb |-> cb, rc |-> rc]
    ELSE [cb |-> TraceCallbackPtr(ts.c_tracefunc, ts.c_traceobj),
          rc |-> Py_XINCREF(rc, ts.c_traceobj)]

\* Mutant: the members are cleared but the reference is not released.
nullify_callback_norelease(cb, rc) ==
    IF cb.null
    THEN [cb |-> cb, rc |-> rc]
    ELSE [cb |-> TraceCallbackPtr(NULL, NULL), rc |-> rc]

nullify_callback(cb, rc) ==
    IF cb.null
    THEN [cb |-> cb, rc |-> rc]
    ELSE [cb |-> TraceCallbackPtr(NULL, NULL),
          rc |-> Py_XDECREF(rc, cb.c_traceobj)]

\* Mutant: the callback is dropped without PyEval_SetTrace().
restore_callback_noset(cb, ts, rc) ==
    IF cb.null
    THEN [cb |-> cb, ts |-> ts, rc |-> rc]
    ELSE LET n == nullify_callback(cb, rc)
         IN  [cb |-> n.cb, ts |-> ts, rc |-> n.rc]

\* Mutant: the trace callback is set but the TraceCallback keeps its
\* members and its reference.
restore_callback_keep(cb, ts, rc) ==
    IF cb.null
    THEN [cb |-> cb, ts |-> ts, rc |-> rc]
    ELSE LET s == PyEval_SetTrace(cb.c_tracefunc, cb.c_traceobj, ts, rc)
         IN  [cb |-> cb, ts |-> s.ts, rc |-> s.rc]

restore_callback(cb, ts, rc) ==
    IF cb.null
    THEN [cb |-> cb, ts |-> ts, rc |-> rc]
    ELSE LET s == PyEval_SetTrace(cb.c_tracefunc, cb.c_traceobj, ts, rc)
             n == nullify_callback(cb, s.rc)
         IN  [cb |-> n.cb, ts |-> s.ts, rc |-> n.rc]

\* alloc_callback(), lines 77-90.  malloc() either fails (a NULL pointer is
\* returned with MemoryError set) or returns storage whose two members are
\* not written before the pointer is returned: they hold whatever the
\* storage held, here any function and any object pointer.
alloc_callback(ok, func, obj) ==
    IF ok
    THEN [cb |-> TraceCallbackPtr(func, obj), exc |-> "none"]
    ELSE [cb |-> NullPtr, exc |-> "MemoryError"]

\* free_callback(), lines 92-97: the storage is returned; the references
\* the members held are not released.
free_callback(cb) == NullPtr

\* Mutant: c_traceobj is not looked at.
is_null_callback_func_only(cb) ==
    \/ cb.null
    \/ cb.c_tracefunc = NULL

is_null_callback(cb) ==
    \/ cb.null
    \/ cb.c_tracefunc = NULL
    \/ cb.c_traceobj = NULL

\* ------------------------------------------------------- frame-local hooks
\* The disabler (disable_line_events) and manager.wrap_local_f_trace are
\* Python callables handed to the C code; each returns a new wrapper.
disable_line_events(h) == <<"dis">> \o h

wrap_local_f_trace(m, h) == <<"wrap">> \o m \o h

\* PyObject_SetAttrString(py_frame, "f_trace", v) when it succeeds: the
\* frame's setter stores NULL for None and for a NULL value (deletion).
frame_set_f_trace(v) == IF v = Py_None THEN NoHook ELSE v

\* The reference count, when the operation returns, of the object that the
\* disable_line_events() call of line 216 or the wrap_local_f_trace() call
\* of line 269 created: the call returns a new reference, a successful
\* PyObject_SetAttrString() makes the frame take one of its own, and the
\* code releases none (lines 214-215, 228-236, 270-272).
new_f_trace_refcnt(created, installed) ==
    LET returned == IF created THEN 1 ELSE 0
    IN  IF installed THEN returned + 1 ELSE returned

\* The program state an operation starts from or ends in.
Snapshot == [tstate |-> tstate, refcnt |-> refcnt,
             callback |-> callback, frame |-> frame]

\* What an activation of call_callback() remembers of the state it was
\* entered in (the frame's f_trace_lines is its local of that name).
Entry == [tstate |-> tstate, refcnt |-> refcnt, callback |-> callback]

\* ------------------------------------------------------- initial state
\* The profiler's TraceCallback is NULL (alloc_callback() failed) or holds
\* what an earlier populate_callback() found installed, with the reference
\* it took; every context object has one more owner outside the model.
InitTrace ==
    /\ tstate \in Slots
    /\ callback \in {NullPtr}
                    \cup {TraceCallbackPtr(s.c_tracefunc, s.c_traceobj) :
                            s \in Slots}
    /\ refcnt = [o \in Objs |->
                    1 + (IF tstate.c_traceobj = o THEN 1 ELSE 0)
                      + (IF callback.c_traceobj = o THEN 1 ELSE 0)]
    /\ frame \in [f_trace : {NoHook, Py_None} \cup PlainHooks,
                  f_trace_lines : {TRUE}]
    /\ stack = << >>
    /\ last = [op |-> "init"]

\* The restart counter is read by monitoring_restart_version() only; the
\* specifications that do not run it start on one build.
Init ==
    /\ InitTrace
    /\ host = [PY_VERSION_HEX |-> Hex_3_12_0b1, last_restart_version |-> 0]

\* SpecEpoch starts on any of the builds.
InitEpoch ==
    /\ InitTrace
    /\ host \in [PY_VERSION_HEX : Builds, last_restart_version : {0}]

\* ------------------------------------------------------- call_callback()
\* Lines 197-200: has the hook unset the thread's trace callback?  `after`
\* is a stack TraceCallback; it is populated, tested and nullified.
\* Mutant: `callback` is never nullified.
check_unset_keep(cb, ts, rc) ==
    LET p == populate_callback(TraceCallbackPtr(NULL, NULL), ts, rc)
        a == nullify_callback(p.cb, p.rc)
    IN  [callback |-> cb, after |-> a.cb, rc |-> a.rc]

\* Mutant: `after` is not nullified.
check_unset_leak(cb, ts, rc) ==
    LET p == populate_callback(TraceCallbackPtr(NULL, NULL), ts, rc)
        n == IF is_null_callback(p.cb)
             THEN nullify_callback(cb, p.rc)
             ELSE [cb |-> cb, rc |-> p.rc]
    IN  [callback |-> n.cb, after |-> p.cb, rc |-> n.rc]

\* Mutant: `callback`'s reference is released but its members are kept, so
\* that a later call releases it again.
check_unset_release_only(cb, ts, rc) ==
    LET p == populate_callback(TraceCallbackPtr(NULL, NULL), ts, rc)
        n == IF is_null_callback(p.cb)
             THEN [cb |-> cb, rc |-> nullify_callback(cb, p.rc).rc]
             ELSE [cb |-> cb, rc |-> p.rc]
        a == nullify_callback(p.cb, n.rc)
    IN  [callback |-> n.cb, after |-> a.cb, rc |-> a.rc]

check_unset(cb, ts, rc) ==
    LET p == populate_callback(TraceCallbackPtr(NULL, NULL), ts, rc)
        n == IF is_null_callback(p.cb)
             THEN nullify_callback(cb, p.rc)
             ELSE [cb |-> cb, rc |-> p.rc]
        a == nullify_callback(p.cb, n.rc)
    IN  [callback |-> n.cb, after |-> a.cb, rc |-> a.rc]

\* Lines 203-232: the hook switched line events off for the frame.  dOk and
\* iOk say whether the disabler call and the setattr succeed when made.
\* Mutant: f_trace_lines is reverted but f_trace is never wrapped.
revert_f_trace_lines_nowrap(fr, f_trace_lines, result, dOk, iOk) ==
    IF ~fr.f_trace_lines /\ f_trace_lines # fr.f_trace_lines
    THEN [frame |-> [fr EXCEPT !.f_trace_lines = f_trace_lines],
          result |-> result,
          called |-> fr.f_trace # NoHook /\ fr.f_trace # Py_None,
          installed |-> FALSE]
    ELSE [frame |-> fr, result |-> result, called |-> FALSE,
          installed |-> FALSE]

\* Mutant: a failed disabler call or setattr leaves `result` alone.
revert_f_trace_lines_swallow(fr, f_trace_lines, result, dOk, iOk) ==
    IF ~fr.f_trace_lines /\ f_trace_lines # fr.f_trace_lines
    THEN LET fr1 == [fr EXCEPT !.f_trace_lines = f_trace_lines]
         IN  IF fr1.f_trace # NoHook /\ fr1.f_trace # Py_None
             THEN IF dOk /\ iOk
                  THEN [frame |-> [fr1 EXCEPT !.f_trace =
                                     frame_set_f_trace(
                                         disable_line_events(fr1.f_trace))],
                        result |-> result, called |-> TRUE,
                        installed |-> TRUE]
                  ELSE [frame |-> fr1, result |-> result, called |-> TRUE,
                        installed |-> FALSE]
             ELSE [frame |-> fr1, result |-> result, called |-> FALSE,
                   installed |-> FALSE]
    ELSE [frame |-> fr, result |-> result, called |-> FALSE,
          installed |-> FALSE]

\* Mutant: -1 is returned whenever f_trace was wrapped at all.
revert_f_trace_lines_always_err(fr, f_trace_lines, result, dOk, iOk) ==
    IF ~fr.f_trace_lines /\ f_trace_lines # fr.f_trace_lines
    THEN LET fr1 == [fr EXCEPT !.f_trace_lines = f_trace_lines]
         IN  IF fr1.f_trace # NoHook /\ fr1.f_trace # Py_None
             THEN IF dOk /\ iOk
                  THEN [frame |-> [fr1 EXCEPT !.f_trace =
                                     frame_set_f_trace(
                                         disable_line_events(fr1.f_trace))],
                        result |-> -1, called |-> TRUE,
                        installed |-> TRUE]
                  ELSE [frame |-> fr1, result |-> -1, called |-> TRUE,
                        installed |-> FALSE]
             ELSE [frame |-> fr1, result |-> result, called |-> FALSE,
                   installed |-> FALSE]
    ELSE [frame |-> fr, result |-> result, called |-> FALSE,
          installed |-> FALSE]

\* Mutant: any change of f_trace_lines is reverted, also one from false
\* to true.
revert_f_trace_lines_any_change(fr, f_trace_lines, result, dOk, iOk) ==
    IF f_trace_lines # fr.f_trace_lines
    THEN LET fr1 == [fr EXCEPT !.f_trace_lines = f_trace_lines]
         IN  IF fr1.f_trace # NoHook /\ fr1.f_trace # Py_None
             THEN IF dOk /\ iOk
                  THEN [frame |-> [fr1 EXCEPT !.f_trace =
                                     frame_set_f_trace(
                                         disable_line_events(fr1.f_trace))],
                        result |-> result, called |-> TRUE,
                        installed |-> TRUE]
                  ELSE [frame |-> fr1, result |-> -1, called |-> TRUE,
                        installed |-> FALSE]
             ELSE [frame |-> fr1, result |-> result, called |-> FALSE,
                   installed |-> FALSE]
    ELSE [frame |-> fr, result |-> result, called |-> FALSE,
          installed |-> FALSE]

revert_f_trace_lines(fr, f_trace_lines, result, dOk, iOk) ==
    IF ~fr.f_trace_lines /\ f_trace_lines # fr.f_trace_lines
    THEN LET fr1 == [fr EXCEPT !.f_trace_lines = f_trace_lines]
         IN  IF fr1.f_trace # NoHook /\ fr1.f_trace # Py_None
             THEN IF ~dOk
                  THEN [frame |-> fr1, result |-> -1, called |-> TRUE,
                        installed |-> FALSE]
                  ELSE IF ~iOk
                  THEN [frame |-> fr1, result |-> -1, called |-> TRUE,
                        installed |-> FALSE]
                  ELSE [frame |-> [fr1 EXCEPT !.f_trace =
                                     frame_set_f_trace(
                                         disable_line_events(fr1.f_trace))],
                        result |-> result, called |-> TRUE,
                        installed |-> TRUE]
             ELSE [frame |-> fr1, result |-> result, called |-> FALSE,
                   installed |-> FALSE]
    ELSE [frame |-> fr, result |-> result, called |-> FALSE,
          installed |-> FALSE]

\* Lines 184-195: the call up to the indirect call of the wrapped hook.  An
\* empty callback returns 0 at line 189; otherwise f_trace_lines is read,
\* `before` is populated and the hook starts to run.
call_callback_entry ==
    /\ Len(stack) < MaxDepth
    /\ IF is_null_callback(callback)
       THEN /\ last' = [op |-> "call_callback", entry |-> Snapshot,
                        depth |-> Len(stack), invoked |-> FALSE,
                        result |-> 0]
            /\ UNCHANGED <<host, tstate, refcnt, callback, frame, stack>>
       ELSE LET p == populate_callback(TraceCallbackPtr(NULL, NULL),
                                       tstate, refcnt)
            IN  /\ stack' = Append(stack,
                               [f_trace_lines |-> frame.f_trace_lines,
                                before |-> p.cb,
                                entry |-> Entry])
                /\ refcnt' = p.rc
                /\ last' = [op |-> "hook"]
                /\ UNCHANGED <<host, tstate, callback, frame>>

\* Code other than the profiler's (the running hook, or the program between
\* two operations of the profiler) installs or clears the thread's trace
\* callback.
other_PyEval_SetTrace ==
    /\ \E s \in Slots :
         LET r == PyEval_SetTrace(s.c_tracefunc, s.c_traceobj, tstate, refcnt)
         IN  /\ tstate' = r.ts
             /\ refcnt' = r.rc
    /\ last' = [op |-> "other"]
    /\ UNCHANGED <<host, callback, frame, stack>>

\* The running hook writes the frame's f_trace and f_trace_lines.
hook_set_f_trace ==
    /\ stack # << >>
    /\ \E h \in {NoHook, Py_None} \cup PlainHooks :
         frame' = [frame EXCEPT !.f_trace = h]
    /\ last' = [op |-> "hook"]
    /\ UNCHANGED <<host, tstate, refcnt, callback, stack>>

hook_set_f_trace_lines ==
    /\ stack # << >>
    /\ \E b \in BOOLEAN : frame' = [frame EXCEPT !.f_trace_lines = b]
    /\ last' = [op |-> "hook"]
    /\ UNCHANGED <<host, tstate, refcnt, callback, stack>>

\* Lines 193-236: the hook of the innermost activation returns r and the
\* rest of call_callback() runs.  The outcomes of the disabler call and of
\* the setattr are inputs only where the call is made (one failure at most:
\* the setattr is not reached after a failed call).
call_callback_return ==
    /\ stack # << >>
    /\ \E r \in Results, dOk \in BOOLEAN, iOk \in BOOLEAN :
         LET act == stack[Len(stack)]
             u == check_unset(callback, tstate, refcnt)
             b == restore_callback(act.before, tstate, u.rc)
             f == revert_f_trace_lines(frame, act.f_trace_lines, r, dOk, iOk)
         IN  /\ (f.called \/ (dOk /\ iOk))
             /\ (dOk \/ iOk)
             /\ Len(f.frame.f_trace) <= MaxDis + 1
             /\ tstate' = b.ts
             /\ refcnt' = b.rc
             /\ callback' = u.callback
             /\ frame' = f.frame
             /\ stack' = SubSeq(stack, 1, Len(stack) - 1)
             /\ last' = [op |-> "call_callback", entry |-> act.entry,
                         depth |-> Len(stack) - 1, invoked |-> TRUE,
                         f_trace_lines |-> act.f_trace_lines,
                         hook |-> Snapshot, r |-> r,
                         before |-> b.cb, after |-> u.after,
                         called |-> f.called, dOk |-> dOk, iOk |-> iOk,
                         result |-> f.result,
                         f_trace_refcnt |->
                             new_f_trace_refcnt(f.called /\ dOk,
                                                f.installed)]
    /\ UNCHANGED host

\* ------------------------------------------------------- the profiler's
\* own use of its TraceCallback, outside any trace dispatch
profiler_populate ==
    /\ stack = << >>
    /\ tstate.c_traceobj # NULL => refcnt[tstate.c_traceobj] < MaxRef
    /\ LET p == populate_callback(callback, tstate, refcnt)
       IN  /\ callback' = p.cb
           /\ refcnt' = p.rc
    /\ last' = [op |-> "populate_callback", prev |-> last.op,
                entry |-> Snapshot]
    /\ UNCHANGED <<host, tstate, frame, stack>>

\* `start` is the state before the populate_callback() that this call
\* directly follows, if it does.
profiler_nullify ==
    /\ stack = << >>
    /\ LET n == nullify_callback(callback, refcnt)
       IN  /\ callback' = n.cb
           /\ refcnt' = n.rc
    /\ last' = [op |-> "nullify_callback", prev |-> last.op,
                entry |-> Snapshot,
                start |-> IF last.op = "populate_callback"
                          THEN last.entry ELSE Snapshot]
    /\ UNCHANGED <<host, tstate, frame, stack>>

profiler_restore ==
    /\ stack = << >>
    /\ LET r == restore_callback(callback, tstate, refcnt)
       IN  /\ callback' = r.cb
           /\ tstate' = r.ts
           /\ refcnt' = r.rc
    /\ last' = [op |-> "restore_callback", prev |-> last.op,
                entry |-> Snapshot,
                start |-> IF last.op = "populate_callback"
                          THEN last.entry ELSE Snapshot]
    /\ UNCHANGED <<host, frame, stack>>

\* The profiler allocates its TraceCallback when it has none, and frees
\* the one it has.
profiler_alloc ==
    /\ stack = << >>
    /\ callback.null
    /\ \E ok \in BOOLEAN, func \in FuncPtrs, obj \in ObjPtrs :
         LET a == alloc_callback(ok, func, obj)
         IN  /\ callback' = a.cb
             /\ last' = [op |-> "alloc_callback", prev |-> last.op,
                         entry |-> Snapshot, exc |-> a.exc]
    /\ UNCHANGED <<host, tstate, refcnt, frame, stack>>

profiler_free ==
    /\ stack = << >>
    /\ ~callback.null
    /\ callback' = free_callback(callback)
    /\ last' = [op |-> "free_callback", prev |-> last.op,
                entry |-> Snapshot]
    /\ UNCHANGED <<host, tstate, refcnt, frame, stack>>

\* ------------------------------------------------------- set_local_trace()
\* Lines 239-273.  manager = NoHook stands for a NULL manager and frNull for
\* a NULL py_frame; wOk and iOk say whether the wrap_local_f_trace() call
\* and the setattr succeed.  A failed call hands NULL to
\* PyObject_SetAttrString(), which then deletes f_trace (iOk) or refuses
\* (~iOk); exc is the pending exception set by whichever failed.
\* Mutant: the `f_trace == manager` no-op test of line 255 is missing.
set_local_trace_nocheck(manager, frNull, fr, wOk, iOk) ==
    IF manager = NoHook \/ frNull
    THEN [frame |-> fr, exc |-> FALSE, wrapped |-> FALSE]
    ELSE IF fr.f_trace = NoHook \/ fr.f_trace = Py_None
    THEN [frame |-> [fr EXCEPT !.f_trace = manager], exc |-> FALSE,
          wrapped |-> FALSE]
    ELSE LET v == IF wOk THEN wrap_local_f_trace(manager, fr.f_trace)
                  ELSE NoHook
         IN  [frame |-> IF iOk
                        THEN [fr EXCEPT !.f_trace = frame_set_f_trace(v)]
                        ELSE fr,
              exc |-> ~wOk \/ ~iOk, wrapped |-> wOk]

\* Mutant: set_local_trace() without the "nothing to wrap" branch: the manager's
\* wrap_local_f_trace() is called on an empty local hook too.
set_local_trace_wrap_empty(manager, frNull, fr, wOk, iOk) ==
    IF manager = NoHook \/ frNull
    THEN [frame |-> fr, exc |-> FALSE, wrapped |-> FALSE]
    ELSE IF fr.f_trace = manager
    THEN [frame |-> fr, exc |-> FALSE, wrapped |-> FALSE]
    ELSE LET v == IF wOk THEN wrap_local_f_trace(manager, fr.f_trace)
                  ELSE NoHook
         IN  [frame |-> IF iOk
                        THEN [fr EXCEPT !.f_trace = frame_set_f_trace(v)]
                        ELSE fr,
              exc |-> ~wOk \/ ~iOk, wrapped |-> wOk]

set_local_trace(manager, frNull, fr, wOk, iOk) ==
    IF manager = NoHook \/ frNull
    THEN [frame |-> fr, exc |-> FALSE, wrapped |-> FALSE]
    ELSE IF fr.f_trace = manager
    THEN [frame |-> fr, exc |-> FALSE, wrapped |-> FALSE]
    ELSE IF fr.f_trace = NoHook \/ fr.f_trace = Py_None
    THEN [frame |-> [fr EXCEPT !.f_trace = manager], exc |-> FALSE,
          wrapped |-> FALSE]
    ELSE LET v == IF wOk THEN wrap_local_f_trace(manager, fr.f_trace)
                  ELSE NoHook
         IN  [frame |-> IF iOk
                        THEN [fr EXCEPT !.f_trace = frame_set_f_trace(v)]
                        ELSE fr,
              exc |-> ~wOk \/ ~iOk, wrapped |-> wOk]

\* `again` says that this call directly follows a set_local_trace() call
\* with the same manager and frame; `first` is then the local hook that
\* earlier call started from and `firstExc` whether it raised.
\* `prevManager` is the manager of a directly preceding call on the frame
\* (NULL when there was none).
profiler_set_local_trace ==
    /\ stack = << >>
    /\ \E manager \in Managers \cup {NoHook}, frNull \in BOOLEAN,
          wOk \in BOOLEAN, iOk \in BOOLEAN :
         LET s == set_local_trace(manager, frNull, frame, wOk, iOk)
         IN  /\ Len(s.frame.f_trace) <= MaxWrap
             /\ frame' = s.frame
             /\ last' = [op |-> "set_local_trace", prev |-> last.op,
                         entry |-> Snapshot, manager |-> manager,
                         frNull |-> frNull, wOk |-> wOk, iOk |-> iOk,
                         exc |-> s.exc, wrapped |-> s.wrapped,
                         again |-> /\ last.op = "set_local_trace"
                                   /\ last.manager = manager
                                   /\ last.frNull = frNull,
                         first |-> IF last.op = "set_local_trace"
                                   THEN last.entry.frame.f_trace
                                   ELSE frame.f_trace,
                         firstExc |-> /\ last.op = "set_local_trace"
                                      /\ last.exc,
                         prevManager |->
                             IF last.op = "set_local_trace" /\ ~last.frNull
                             THEN last.manager ELSE NoHook,
                         f_trace_refcnt |->
                             new_f_trace_refcnt(s.wrapped,
                                                s.wrapped /\ iOk)]
    /\ UNCHANGED <<host, tstate, refcnt, callback, stack>>

\* Another tool's global trace function hands the frame a local hook (the
\* frame's f_trace setter) between two set_local_trace() calls.
other_set_f_trace ==
    /\ stack = << >>
    /\ \E h \in {NoHook, Py_None} \cup PlainHooks
                \cup {disable_line_events(p) : p \in PlainHooks} :
         frame' = [frame EXCEPT !.f_trace = frame_set_f_trace(h)]
    /\ last' = [op |-> "other"]
    /\ UNCHANGED <<host, tstate, refcnt, callback, stack>>

\* ------------------------------------------------------- restart version
\* Mutant: the dummy implementation on every build.
monitoring_restart_version_dummy(h) == 0

\* monitoring_restart_version(), lines 275-285.
monitoring_restart_version(h) ==
    IF h.PY_VERSION_HEX >= Hex_3_12_0b1
    THEN h.last_restart_version
    ELSE 0

\* The operations of SpecEpoch; their `last` records carry `result`, the
\* value the latest monitoring_restart_version() call returned (0 before
\* the first call, the least value of the unsigned counter).
EpochOps == {"monitoring_restart_version", "restart_events"}

LatestResult == IF last.op \in EpochOps THEN last.result ELSE 0

profiler_monitoring_restart_version ==
    /\ stack = << >>
    /\ last' = [op |-> "monitoring_restart_version", entry |-> Snapshot,
                host |-> host,
                result |-> monitoring_restart_version(host),
                earlier |-> LatestResult]
    /\ UNCHANGED <<host, tstate, refcnt, callback, frame, stack>>

\* sys.monitoring.restart_events() in some Python code: the interpreter
\* advances its last_restart_version.
sys_monitoring_restart_events ==
    /\ stack = << >>
    /\ host.PY_VERSION_HEX >= Hex_3_12_0a7
    /\ host.last_restart_version < MaxEpoch
    /\ \E d \in {1, 2} :
         host' = [host EXCEPT !.last_restart_version = @ + d]
    /\ last' = [op |-> "restart_events", result |-> LatestResult]
    /\ UNCHANGED <<tstate, refcnt, callback, frame, stack>>

\* ------------------------------------------------------- specifications
\* Spec: call_callback(), reentrant, around an arbitrary hook.
Next ==
    \/ call_callback_entry
    \/ other_PyEval_SetTrace
    \/ hook_set_f_trace
    \/ hook_set_f_trace_lines
    \/ call_callback_return

Spec == Init /\ [][Next]_vars

\* SpecSnapshot: the profiler's populate/nullify/restore of its
\* TraceCallback while other code changes the thread's trace callback.
NextSnapshot ==
    \/ profiler_populate
    \/ profiler_nullify
    \/ profiler_restore
    \/ other_PyEval_SetTrace

SpecSnapshot == Init /\ [][NextSnapshot]_vars

\* SpecAttach: set_local_trace() on a frame whose local hook other tools set.
NextAttach ==
    \/ profiler_set_local_trace
    \/ other_set_f_trace

SpecAttach == Init /\ [][NextAttach]_vars

\* SpecAlloc: the life of the profiler's TraceCallback from alloc_callback()
\* to free_callback().
NextAlloc ==
    \/ profiler_alloc
    \/ profiler_populate
    \/ profiler_free
    \/ other_PyEval_SetTrace

SpecAlloc == Init /\ [][NextAlloc]_vars

\* SpecEpoch: monitoring_restart_version() read any number of times while
\* Python code restarts the monitoring events.
NextEpoch ==
    \/ profiler_monitoring_restart_version
    \/ sys_monitoring_restart_events

SpecEpoch == InitEpoch /\ [][NextEpoch]_vars

\* ======================================================= claims
\* isEmpty of the specification: no snapshot, or either field empty.
IsEmptySnapshot(cb) ==
    cb.null \/ cb.c_tracefunc = NULL \/ cb.c_traceobj = NULL

EmptySlot(ts) == ts.c_tracefunc = NULL \/ ts.c_traceobj = NULL

Cleared == TraceCallbackPtr(NULL, NULL)

\* 1 when the snapshot's context field is the object o, else 0.
Holds(cb, o) == IF cb.c_traceobj = o THEN 1 ELSE 0

\* call_callback() has just returned from a call that invoked the hook.
Returned == last.op = "call_callback" /\ last.invoked

\* Step 6 was entered and the disabler call or the setattr failed.
Step6Failed == last.called /\ ~(last.dOk /\ last.iOk)

\* C1: when call_callback() returns from a call made with a non-empty
\* snapshot, the thread's trace callback is the pair it was on entry,
\* whatever the hook installed in between.
C1_Transparent ==
    (last.op = "call_callback" /\ ~IsEmptySnapshot(last.entry.callback))
        => tstate = last.entry.tstate

\* The hook cleared a set trace callback and the call has returned.
C1_Witness ==
    /\ Returned
    /\ ~EmptySlot(last.entry.tstate)
    /\ last.hook.tstate = [c_tracefunc |-> NULL, c_traceobj |-> NULL]
    /\ tstate = last.entry.tstate

\* C2: call_callback() on an empty snapshot (NULL, or either member NULL)
\* returns 0 without invoking the hook and leaves the thread's trace
\* callback, every reference count, the snapshot and the frame as they were.
C2_EmptyIsNoOp ==
    (last.op = "call_callback" /\ IsEmptySnapshot(last.entry.callback))
        => /\ ~last.invoked
           /\ last.result = 0
           /\ tstate = last.entry.tstate
           /\ refcnt = last.entry.refcnt
           /\ callback = last.entry.callback
           /\ frame = last.entry.frame

\* A half-set snapshot was passed while a trace callback is installed.
C2_Witness ==
    /\ last.op = "call_callback"
    /\ ~last.invoked
    /\ ~last.entry.callback.null
    /\ last.entry.callback.c_tracefunc # NULL
    /\ last.entry.callback.c_traceobj = NULL
    /\ ~EmptySlot(tstate)

\* C3: if the thread's trace callback is empty when the hook returns, then
\* after call_callback() the caller's snapshot has both members cleared and
\* the context it held on entry has lost exactly one reference.
C3_SelfUnset ==
    (Returned /\ EmptySlot(last.hook.tstate))
        => /\ callback = Cleared
           /\ \A o \in Objs :
                refcnt[o] = last.entry.refcnt[o] - Holds(last.entry.callback, o)

\* The hook cleared the trace callback; the snapshot held o1 on entry.
C3_Witness ==
    /\ Returned
    /\ last.hook.tstate = [c_tracefunc |-> NULL, c_traceobj |-> NULL]
    /\ ~EmptySlot(last.entry.tstate)
    /\ last.entry.callback.c_traceobj = "o1"
    /\ callback = Cleared
    /\ refcnt["o1"] = last.entry.refcnt["o1"] - 1

\* C4 as stated: f_trace_lines was true on entry and false after the hook;
\* on return it is true again and a non-empty f_trace has been replaced by
\* the disabler's result for it, an empty one is left alone and the
\* disabler is not called.
C4_AsStated ==
    (Returned /\ last.f_trace_lines /\ ~last.hook.frame.f_trace_lines)
        => /\ frame.f_trace_lines
           /\ IF last.hook.frame.f_trace \notin {NoHook, Py_None}
              THEN frame.f_trace =
                       disable_line_events(last.hook.frame.f_trace)
              ELSE /\ ~last.called
                   /\ frame.f_trace = last.hook.frame.f_trace

\* C4 (amended): as C4_AsStated, with the replacement made when the
\* disabler call and the setattr both succeed; when either fails f_trace is
\* what the hook left.
C4_LineEventsReverted ==
    (Returned /\ last.f_trace_lines /\ ~last.hook.frame.f_trace_lines)
        => /\ frame.f_trace_lines
           /\ IF last.hook.frame.f_trace \notin {NoHook, Py_None}
              THEN /\ last.called
                   /\ frame.f_trace =
                        IF last.dOk /\ last.iOk
                        THEN disable_line_events(last.hook.frame.f_trace)
                        ELSE last.hook.frame.f_trace
              ELSE /\ ~last.called
                   /\ frame.f_trace = last.hook.frame.f_trace

\* The hook switched line events off on a frame whose f_trace is h1.
C4_Witness ==
    /\ Returned
    /\ last.f_trace_lines
    /\ ~last.hook.frame.f_trace_lines
    /\ last.hook.frame.f_trace = <<"h1">>
    /\ frame.f_trace = <<"dis", "h1">>
    /\ frame.f_trace_lines

\* C5: when the hook returns -1, call_callback() still returns with the
\* trace callback it was entered with, the snapshot nullified if the hook
\* left the trace callback empty (and as the hook left it otherwise),
\* `before` and `after` cleared, no reference held by either, and -1 as
\* its result.
C5_CleanupOnError ==
    (Returned /\ last.r = -1)
        => /\ last.result = -1
           /\ tstate = last.entry.tstate
           /\ callback = IF EmptySlot(last.hook.tstate)
                         THEN Cleared ELSE last.hook.callback
           /\ last.before = Cleared
           /\ last.after = Cleared
           /\ \A o \in Objs :
                refcnt[o] = last.entry.refcnt[o]
                            - Holds(last.entry.callback, o)
                            + Holds(callback, o)

\* The hook replaced the trace callback by another one and raised.
C5_Witness ==
    /\ Returned
    /\ last.r = -1
    /\ ~EmptySlot(last.hook.tstate)
    /\ ~EmptySlot(last.entry.tstate)
    /\ last.hook.tstate # last.entry.tstate
    /\ tstate = last.entry.tstate

\* C6: when the disabler call or the setattr of step 6 fails,
\* call_callback() returns -1 whatever the hook returned, the trace
\* callback is the one of entry, f_trace_lines is true again, and after a
\* failed disabler call f_trace is the hook the call was made on.
C6_Step6Failure ==
    (Returned /\ Step6Failed)
        => /\ last.result = -1
           /\ tstate = last.entry.tstate
           /\ frame.f_trace_lines
           /\ (~last.dOk => frame.f_trace = last.hook.frame.f_trace)

\* The disabler raised after a hook that returned 1 and changed the slot.
C6_Witness ==
    /\ Returned
    /\ last.called
    /\ ~last.dOk
    /\ last.r = 1
    /\ last.result = -1
    /\ last.hook.tstate # last.entry.tstate
    /\ frame.f_trace = <<"h1">>
    /\ frame.f_trace_lines

\* C7: call_callback() returns 0 for an empty snapshot; otherwise the
\* hook's own code r, except -1 when step 6 failed.
C7_Result ==
    last.op = "call_callback"
        => last.result =
             IF IsEmptySnapshot(last.entry.callback) THEN 0
             ELSE IF Step6Failed THEN -1
             ELSE last.r

\* Step 6 wrapped f_trace and the hook's 1 was passed through.
C7_Witness ==
    /\ Returned
    /\ last.called
    /\ last.dOk /\ last.iOk
    /\ last.r = 1
    /\ last.result = 1

\* C8: populate_callback() on an empty snapshot while a context object is
\* installed, directly followed by nullify_callback() or by
\* restore_callback(), leaves every reference count as before the populate
\* and the snapshot cleared; nullify_callback() on a snapshot just cleared
\* changes no reference count.
C8_RefBalance ==
    /\ ( /\ last.op \in {"nullify_callback", "restore_callback"}
         /\ last.prev = "populate_callback"
         /\ last.start.callback = Cleared
         /\ last.start.tstate.c_traceobj # NULL )
          => /\ refcnt = last.start.refcnt
             /\ callback = Cleared
    /\ ( /\ last.op = "nullify_callback"
         /\ last.prev \in {"nullify_callback", "restore_callback"}
         /\ ~callback.null )
          => /\ refcnt = last.entry.refcnt
             /\ callback = Cleared

\* populate then restore with (f1, o1) installed.
C8_Witness ==
    /\ last.op = "restore_callback"
    /\ last.prev = "populate_callback"
    /\ last.start.callback = Cleared
    /\ last.start.tstate = [c_tracefunc |-> "f1", c_traceobj |-> "o1"]
    /\ last.entry.refcnt["o1"] = last.start.refcnt["o1"] + 1
    /\ refcnt = last.start.refcnt

\* The second of two set_local_trace() calls in a row with the same
\* non-NULL manager and frame.
SecondAttach ==
    /\ last.op = "set_local_trace"
    /\ last.again
    /\ last.manager # NoHook
    /\ ~last.frNull

\* C9 as stated: the second of two set_local_trace() calls in a row leaves
\* the local hook the first one left, whatever hook the frame started with
\* (stated here for two calls that raise nothing, so that no failure path
\* of set_local_trace() is involved).
C9_AsStated ==
    (SecondAttach /\ ~last.firstExc /\ ~last.exc)
        => frame.f_trace = last.entry.frame.f_trace

\* C9 (amended): that holds when the frame started with no local hook or
\* with the manager; when it started with another hook and both calls
\* wrapped it, the second leaves the wrapper of the first's wrapper.
C9_Idempotent ==
    SecondAttach
        => IF last.first \in {NoHook, Py_None, last.manager}
           THEN frame.f_trace = last.entry.frame.f_trace
           ELSE ( /\ last.entry.frame.f_trace =
                        wrap_local_f_trace(last.manager, last.first)
                  /\ last.wOk /\ last.iOk )
                  => /\ frame.f_trace =
                          wrap_local_f_trace(last.manager,
                              wrap_local_f_trace(last.manager, last.first))
                     /\ frame.f_trace # last.entry.frame.f_trace

\* Two calls in a row on a frame that had no local hook.
C9_Witness ==
    /\ SecondAttach
    /\ last.first = NoHook
    /\ last.manager = <<"m1">>
    /\ frame.f_trace = <<"m1">>

\* C10: set_local_trace() on a frame whose local hook H is neither empty
\* nor the manager leaves wrap_local_f_trace(H), or else H with an
\* exception pending.
C10_NotDiscarded ==
    ( /\ last.op = "set_local_trace"
      /\ last.manager # NoHook
      /\ ~last.frNull
      /\ last.entry.frame.f_trace \notin {NoHook, Py_None, last.manager} )
        => \/ frame.f_trace =
                wrap_local_f_trace(last.manager, last.entry.frame.f_trace)
           \/ /\ frame.f_trace = last.entry.frame.f_trace
              /\ last.exc

\* A set_local_trace() call with a manager and a frame.
Attach ==
    /\ last.op = "set_local_trace"
    /\ last.manager # NoHook
    /\ ~last.frNull

C12_EmptyRestoreNoOp ==
    ( /\ last.op = "restore_callback"
      /\ ~last.entry.callback.null
      /\ IsEmptySnapshot(last.entry.callback)
      /\ ~EmptySlot(last.entry.tstate) )
        => /\ tstate = last.entry.tstate
           /\ callback = Cleared

\* C13: alloc_callback() returns either a TraceCallback that is empty
\* (is_null_callback() holds on it before any populate_callback()), with no
\* exception set, or a NULL pointer with MemoryError set.
C13_AllocEmptyOrError ==
    last.op = "alloc_callback"
        => IF callback.null
           THEN last.exc = "MemoryError"
           ELSE is_null_callback(callback) /\ last.exc = "none"

\* C14: monitoring_restart_version() is a pure read.  On a build that
\* exposes the counter (3.12.0b1 and later) it returns the interpreter's
\* last_restart_version at the time of the call, and no call returns less
\* than the call before it; on any other build it returns 0; the thread
\* state, the reference counts, the TraceCallback, the frame and the
\* interpreter state are as they were before the call.
C14_PureRead ==
    last.op = "monitoring_restart_version"
        => /\ IF host.PY_VERSION_HEX >= Hex_3_12_0b1
              THEN /\ last.result = host.last_restart_version
                   /\ last.result >= last.earlier
              ELSE last.result = 0 /\ last.earlier = 0
           /\ Snapshot = last.entry
           /\ host = last.host

\* On a 3.12.0b1 build a call has returned 1 and, after a restart, the
\* next call has returned more.
C14_Witness ==
    /\ last.op = "monitoring_restart_version"
    /\ host.PY_VERSION_HEX = Hex_3_12_0b1
    /\ last.earlier = 1
    /\ last.result > 1

\* The references to the object o that the model's owners hold: the thread
\* state, the profiler's TraceCallback and the `before` of every
\* call_callback() activation.
Owners(o) ==
    (IF tstate.c_traceobj = o THEN 1 ELSE 0)
    + Holds(callback, o)
    + Cardinality({i \in 1..Len(stack) : stack[i].before.c_traceobj = o})

\* C15: with call_callback() entered again on the same TraceCallback from
\* inside the running hook, to any depth and with the hook changing or
\* clearing the thread's trace callback at any level, every activation
\* that ran its hook returns with the trace callback it was entered with,
\* and no reference is released twice: no object's count ever falls below
\* the references its owners hold.
C15_Reentrant ==
    /\ Returned => tstate = last.entry.tstate
    /\ \A o \in Objs : refcnt[o] >= 1 + Owners(o)

\* A nested activation returns while the outer hook still runs; both
\* hooks changed the thread's trace callback.
C15_Witness ==
    /\ Returned
    /\ last.depth = 1
    /\ Len(stack) = 1
    /\ last.hook.tstate # last.entry.tstate
    /\ stack[1].entry.tstate # tstate
    /\ ~EmptySlot(tstate)

\* C16: the second of two populate_callback() calls in a row on the same
\* TraceCallback, the thread's trace callback unchanged in between, leaves
\* the members the first call left and takes no further reference: the
\* TraceCallback accounts for one reference to the object, which one
\* nullify_callback() releases.
C16_PopulateIdempotent ==
    ( /\ last.op = "populate_callback"
      /\ last.prev = "populate_callback" )
        => /\ callback = last.entry.callback
           /\ refcnt = last.entry.refcnt
           /\ nullify_callback(callback, refcnt).rc
                  = [o \in Objs |->
                        last.entry.refcnt[o] - Holds(last.entry.callback, o)]

\* C17: when call_callback() returns from a call that ran the hook,
\* whether the hook installed itself as the thread's trace callback,
\* installed another one or cleared it, every object's count is one (the
\* owner outside the model) plus the references its owners hold: one for
\* the thread state if it is the trace object, none for this activation's
\* `before` and `after`, which are cleared, and one for the profiler's
\* TraceCallback exactly if that is non-empty.
C17_RefAccounting ==
    Returned
        => /\ \A o \in Objs : refcnt[o] = 1 + Owners(o)
           /\ last.before = Cleared
           /\ last.after = Cleared
           /\ IsEmptySnapshot(callback) => callback = Cleared

\* The hook installed itself (the function and object of the
\* TraceCallback) as the thread's trace callback, which was another one
\* on entry.
C17_Witness ==
    /\ Returned
    /\ last.hook.tstate.c_tracefunc = last.entry.callback.c_tracefunc
    /\ last.hook.tstate.c_traceobj = last.entry.callback.c_traceobj
    /\ ~EmptySlot(last.entry.tstate)
    /\ last.entry.tstate # last.hook.tstate
    /\ refcnt[last.entry.callback.c_traceobj] = 2

\* C18: call_callback() nullifies the profiler's TraceCallback only when
\* the hook cleared the thread's trace callback: when the trace callback
\* is the same at the hook's return as on entry, also when that is "none
\* installed", the TraceCallback has the function and object it had on
\* entry.
C18_NullifiedOnlyOnUnset ==
    (Returned /\ last.hook.tstate = last.entry.tstate)
        => callback = last.entry.callback

\* C19: while a hook that call_callback() called with the TraceCallback's
\* object is still running, the TraceCallback keeps its reference to that
\* object; in particular when a nested call_callback() on the same
\* TraceCallback has returned after its hook unset the thread's trace
\* callback (stated for a nested call that was entered with a trace
\* callback installed, so that the failure of C18 is not involved).
C19_HeldWhileRunning ==
    (Returned /\ stack # << >> /\ ~EmptySlot(last.entry.tstate))
        => \A i \in 1..Len(stack) :
              callback.c_traceobj = stack[i].entry.callback.c_traceobj

\* C20: lines 203-232 act only when f_trace_lines was true on entry and
\* is false after the hook.  When it kept its value or went from false to
\* true, the disabler is not called and f_trace_lines and f_trace are, at
\* the return of call_callback(), as the hook left them.
C20_OnlyOnDisable ==
    (Returned /\ ~(last.f_trace_lines /\ ~last.hook.frame.f_trace_lines))
        => /\ ~last.called
           /\ frame = last.hook.frame

\* Entered with f_trace_lines false, the hook switched it on and left a
\* local hook on the frame.
C20_Witness ==
    /\ Returned
    /\ ~last.f_trace_lines
    /\ last.hook.frame.f_trace_lines
    /\ frame.f_trace = <<"h1">>
    /\ frame.f_trace_lines

\* C21: the object that call_callback() got from the disabler, or
\* set_local_trace() from manager.wrap_local_f_trace(), is held, when the
\* operation returns, by the references of its owners only: one, the
\* frame's, when it was installed as f_trace, and none when the install
\* failed.
C21_NewHookOwned ==
    /\ (Returned /\ last.called /\ last.dOk)
          => /\ last.iOk => frame.f_trace =
                                disable_line_events(last.hook.frame.f_trace)
             /\ last.f_trace_refcnt = IF last.iOk THEN 1 ELSE 0
    /\ (last.op = "set_local_trace" /\ last.wrapped)
          => /\ last.iOk => frame.f_trace =
                                wrap_local_f_trace(last.manager,
                                    last.entry.frame.f_trace)
             /\ last.f_trace_refcnt = IF last.iOk THEN 1 ELSE 0

====
